---- MODULE Spec2Model ----
(***************************************************************************)
(* Model of the AdminNotifications component                               *)
(* (src/src/components/AdminNotifications.js): the four useState cells,    *)
(* the two async handlers fetchNotifications and handleMarkAsRead, split   *)
(* at their await, and the mount effect with its refresh interval.         *)
(***************************************************************************)
EXTENDS Integers, Sequences, FiniteSets, TLC

\* ---------------------------------------------------------------- bounds
\* Notification ids are 1..MaxId, numbered in the order the backend lists them;
\* a fetched list holds each id at most once.
MaxId == 2
\* Collaborator calls (getAdminNotifications and markNotificationAsRead
\* together) that may be awaiting at the same time.
MaxAwaiting == 2
\* Refresh intervals the clock is followed for.
MaxTicks == 3

\* ---------------------------------------------------------------- values
Ids == 1..MaxId

\* notification.type of the notification with a given id (line 69 reads it):
\* id 1 is a Google sign-up, every other id carries a tag the switch does
\* not know.
TypeOf(id) == IF id = 1 THEN "new_google_user" ELSE "xyz_unhandled"

Notification == {[id |-> i, type |-> TypeOf(i), read |-> r] : i \in Ids, r \in BOOLEAN}

\* The lists getAdminNotifications() may resolve with: any subset of the
\* ids in backend order, any read flags.
FetchResults ==
    {s \in UNION {[1..n -> Notification] : n \in 0..MaxId} :
        \A i, j \in DOMAIN s : i < j => s[i].id < s[j].id}

\* setError('Failed to load notifications')
FetchErrorMessage == "Failed to load notifications"

VARIABLES
    phase,          \* "unmounted" (before the mount effect), "mounted", "disposed"
    notifications,  \* useState([])
    loading,        \* useState(false)
    error,          \* useState('')
    unreadCount,    \* useState(0)
    interval,       \* TRUE while the setInterval handle is live
    fetching,       \* awaiting getAdminNotifications() calls, in call order
    marking,        \* per id, the awaiting markNotificationAsRead(id) calls
    unhandled,      \* rejections that escaped a handler's try/catch
    lastSettled,    \* the collaborator call settled last while mounted
    elapsed,        \* refresh intervals elapsed since setInterval
    timerFetches,   \* fetchNotifications calls made by the interval
    subject,        \* the notification handed to getNotificationContent
    content         \* what getNotificationContent returned for it

\* The clock and the interval's calls, followed by SpecClock only.
clock == <<elapsed, timerFetches>>

\* The argument and result of getNotificationContent, followed by SpecContent only.
view == <<subject, content>>

vars == <<phase, notifications, loading, error, unreadCount, interval,
          fetching, marking, unhandled, lastSettled, clock, view>>

\* ---------------------------------------------------------------- helpers
\* The record of a settlement: kind is "fetchOk", "fetchFail", "ackOk" or
\* "ackFail"; id is the acknowledged id; result is the list a fetch resolved
\* with; overtaken tells that a fetch called later had resolved before it;
\* again tells that handleMarkAsRead was called for id after the settlement.
Settled(k, i, r, o) == [kind |-> k, id |-> i, result |-> r, overtaken |-> o, again |-> FALSE]

RECURSIVE Pending(_, _)
\* The number of awaiting markNotificationAsRead calls for the ids up to n.
Pending(m, n) == IF n = 0 THEN 0 ELSE m[n] + Pending(m, n - 1)

RECURSIVE CountRead(_)
\* The filter without its negation: counts the entries that are read.
CountRead(list) ==
    IF list = <<>> THEN 0
    ELSE (IF list[1].read THEN 1 ELSE 0) + CountRead(Tail(list))

RECURSIVE CountUnread(_)
\* fetchedNotifications.filter(notification => !notification.read).length
CountUnread(list) ==
    IF list = <<>> THEN 0
    ELSE (IF list[1].read THEN 0 ELSE 1) + CountUnread(Tail(list))

\* A map that flips the flag of the matching entry instead of setting it.
MarkToggle(list, notificationId) ==
    [i \in DOMAIN list |->
        IF list[i].id = notificationId
        THEN [list[i] EXCEPT !.read = ~@]
        ELSE list[i]]

\* The map without its id test: every entry becomes read.
MarkAllRead(list, notificationId) ==
    [i \in DOMAIN list |-> [list[i] EXCEPT !.read = TRUE]]

\* prevNotifications.map(n => n.id === notificationId ? {...n, read: true} : n)
MarkRead(list, notificationId) ==
    [i \in DOMAIN list |->
        IF list[i].id = notificationId
        THEN [list[i] EXCEPT !.read = TRUE]
        ELSE list[i]]

\* The decrement without its floor.
DecrementUnclamped(prev) == prev - 1

\* Math.max(0, prev - 1)
Decrement(prev) == IF prev - 1 > 0 THEN prev - 1 ELSE 0

\* A sequence without its i-th element.
RemoveAt(s, i) == SubSeq(s, 1, i - 1) \o SubSeq(s, i + 1, Len(s))

HasId(list, id) == \E i \in DOMAIN list : list[i].id = id

\* What the menu shows: the spinner while loading, else the error text, else
\* the list (or "No notifications").
Status == IF loading THEN "loading" ELSE IF error # "" THEN "error" ELSE "ready"

\* ---------------------------------------------------------------- getNotificationContent
\* A JavaScript value of a notification field: undefined (the field is
\* missing), null, or a string.
Undefined == [t |-> "undefined", s |-> ""]

Null == [t |-> "null", s |-> ""]

Str(x) == [t |-> "string", s |-> x]

\* a || b: a when it is truthy (a non-empty string), else b.
Or(a, b) == IF a.t = "string" /\ a.s # "" THEN a ELSE b

\* What a template literal interpolates for a value.
Interpolate(v) == IF v.t = "string" THEN v.s ELSE v.t

\* The notifications getNotificationContent is applied to.
Subjects ==
    [type : {Str("new_google_user"), Str("xyz_unhandled"), Str(""), Undefined, Null},
     userName : {Undefined, Null, Str(""), Str("Alice")},
     userEmail : {Undefined, Null, Str(""), Str("a@x.com")}]

\* No content yet: getNotificationContent has not run.
NotRendered == [title |-> "", message |-> <<>>, link |-> "", linkText |-> ""]

\* The template with its operands swapped: the e-mail address is preferred.
getNotificationContentEmailFirst(notification) ==
    IF notification.type = Str("new_google_user")
    THEN [title |-> "New Google Sign-up",
          message |-> <<Interpolate(Or(notification.userEmail, notification.userName)),
                        " has signed up with Google and is pending approval.">>,
          link |-> "/admin/pending-users",
          linkText |-> "View Pending Users"]
    ELSE [title |-> "Notification",
          message |-> <<"You have a new notification.">>,
          link |-> "",
          linkText |-> ""]

\* A switch whose first arm lacks its return and falls into a default that
\* keeps the arm's link.
getNotificationContentLinkEverywhere(notification) ==
    IF notification.type = Str("new_google_user")
    THEN [title |-> "New Google Sign-up",
          message |-> <<Interpolate(Or(notification.userName, notification.userEmail)),
                        " has signed up with Google and is pending approval.">>,
          link |-> "/admin/pending-users",
          linkText |-> "View Pending Users"]
    ELSE [title |-> "Notification",
          message |-> <<"You have a new notification.">>,
          link |-> "/admin/pending-users",
          linkText |-> "View Pending Users"]

\* getNotificationContent (lines 68-85); the message is the sequence of the
\* template's pieces: the interpolated value, then the fixed text.
getNotificationContent(notification) ==
    IF notification.type = Str("new_google_user")
    THEN [title |-> "New Google Sign-up",
          message |-> <<Interpolate(Or(notification.userName, notification.userEmail)),
                        " has signed up with Google and is pending approval.">>,
          link |-> "/admin/pending-users",
          linkText |-> "View Pending Users"]
    ELSE [title |-> "Notification",
          message |-> <<"You have a new notification.">>,
          link |-> "",
          linkText |-> ""]

\* ---------------------------------------------------------------- initial state
\* The useState initial values (lines 9-12); nothing is awaiting and the
\* mount effect has not run yet.
InitStore ==
    /\ phase = "unmounted"
    /\ notifications = <<>>
    /\ loading = FALSE
    /\ error = ""
    /\ unreadCount = 0
    /\ interval = FALSE
    /\ fetching = <<>>
    /\ marking = [i \in Ids |-> 0]
    /\ unhandled = 0
    /\ lastSettled = Settled("none", 0, <<>>, FALSE)
    /\ elapsed = 0
    /\ timerFetches = 0

Init ==
    /\ InitStore
    /\ subject = [type |-> Undefined, userName |-> Undefined, userEmail |-> Undefined]
    /\ content = NotRendered

\* ---------------------------------------------------------------- fetchNotifications
\* fetchNotifications without its setLoading(true).
FetchCallWithoutLoading ==
    /\ Len(fetching) + Pending(marking, MaxId) < MaxAwaiting
    /\ fetching' = Append(fetching, [overtaken |-> FALSE])
    /\ UNCHANGED <<notifications, loading, error, unreadCount, marking, unhandled,
                   lastSettled>>

\* fetchNotifications up to its await (lines 15-18): setLoading(true), then
\* the collaborator call is awaiting. Nothing else is written; in particular
\* error keeps its value.
FetchCall ==
    /\ Len(fetching) + Pending(marking, MaxId) < MaxAwaiting
    /\ loading' = TRUE
    /\ fetching' = Append(fetching, [overtaken |-> FALSE])
    /\ UNCHANGED <<notifications, error, unreadCount, marking, unhandled, lastSettled>>

\* The i-th awaiting call leaves; if it resolved, every call made before it
\* has now been overtaken by a later call's response.
FetchingWithout(i, resolved) ==
    LET marked == [j \in DOMAIN fetching |->
                      IF resolved /\ j < i
                      THEN [fetching[j] EXCEPT !.overtaken = TRUE]
                      ELSE fetching[j]]
    IN  RemoveAt(marked, i)

\* A fetch that discards the response of a call a later call has overtaken.
FetchSucceededFenced(i, fetched) ==
    /\ i \in DOMAIN fetching
    /\ fetched \in FetchResults
    /\ fetching' = FetchingWithout(i, TRUE)
    /\ IF phase = "mounted"
       THEN /\ notifications' = IF fetching[i].overtaken THEN notifications ELSE fetched
            /\ unreadCount' = IF fetching[i].overtaken THEN unreadCount ELSE CountUnread(fetched)
            /\ loading' = FALSE
            /\ lastSettled' = Settled("fetchOk", 0, fetched, fetching[i].overtaken)
       ELSE UNCHANGED <<notifications, unreadCount, loading, lastSettled>>
    /\ UNCHANGED <<phase, error, interval, marking, unhandled>>
    /\ UNCHANGED <<clock, view>>

\* A fetch that appends the response to the list it had.
FetchSucceededAppending(i, fetched) ==
    /\ i \in DOMAIN fetching
    /\ fetched \in FetchResults
    /\ fetching' = FetchingWithout(i, TRUE)
    /\ IF phase = "mounted"
       THEN /\ notifications' = notifications \o fetched
            /\ unreadCount' = CountUnread(notifications \o fetched)
            /\ loading' = FALSE
            /\ lastSettled' = Settled("fetchOk", 0, fetched, fetching[i].overtaken)
       ELSE UNCHANGED <<notifications, unreadCount, loading, lastSettled>>
    /\ UNCHANGED <<phase, error, interval, marking, unhandled>>
    /\ UNCHANGED <<clock, view>>

\* A fetch that merges: an entry read locally stays read.
FetchSucceededMerging(i, fetched) ==
    /\ i \in DOMAIN fetching
    /\ fetched \in FetchResults
    /\ fetching' = FetchingWithout(i, TRUE)
    /\ IF phase = "mounted"
       THEN /\ notifications' =
                 [j \in DOMAIN fetched |->
                     IF \E k \in DOMAIN notifications :
                            notifications[k].id = fetched[j].id /\ notifications[k].read
                     THEN [fetched[j] EXCEPT !.read = TRUE]
                     ELSE fetched[j]]
            /\ unreadCount' = CountUnread(notifications')
            /\ loading' = FALSE
            /\ lastSettled' = Settled("fetchOk", 0, fetched, fetching[i].overtaken)
       ELSE UNCHANGED <<notifications, unreadCount, loading, lastSettled>>
    /\ UNCHANGED <<phase, error, interval, marking, unhandled>>
    /\ UNCHANGED <<clock, view>>

\* The i-th awaiting getAdminNotifications() resolves with fetched
\* (lines 19-23, then finally, line 28). After unmount React drops the
\* state updates.
FetchSucceeded(i, fetched) ==
    /\ i \in DOMAIN fetching
    /\ fetched \in FetchResults
    /\ fetching' = FetchingWithout(i, TRUE)
    /\ IF phase = "mounted"
       THEN /\ notifications' = fetched
            /\ unreadCount' = CountUnread(fetched)
            /\ loading' = FALSE
            /\ lastSettled' = Settled("fetchOk", 0, fetched, fetching[i].overtaken)
       ELSE UNCHANGED <<notifications, unreadCount, loading, lastSettled>>
    /\ UNCHANGED <<phase, error, interval, marking, unhandled>>
    /\ UNCHANGED <<clock, view>>

\* A fetch without its finally block: a rejection leaves loading set.
FetchFailedKeepsLoading(i) ==
    /\ i \in DOMAIN fetching
    /\ fetching' = FetchingWithout(i, FALSE)
    /\ IF phase = "mounted"
       THEN /\ error' = FetchErrorMessage
            /\ lastSettled' = Settled("fetchFail", 0, <<>>, fetching[i].overtaken)
       ELSE UNCHANGED <<error, lastSettled>>
    /\ UNCHANGED <<phase, notifications, loading, unreadCount, interval, marking,
                   unhandled>>
    /\ UNCHANGED <<clock, view>>

\* A catch block that also empties the list.
FetchFailedClearsList(i) ==
    /\ i \in DOMAIN fetching
    /\ fetching' = FetchingWithout(i, FALSE)
    /\ IF phase = "mounted"
       THEN /\ error' = FetchErrorMessage
            /\ loading' = FALSE
            /\ notifications' = <<>>
            /\ unreadCount' = 0
            /\ lastSettled' = Settled("fetchFail", 0, <<>>, fetching[i].overtaken)
       ELSE UNCHANGED <<error, loading, notifications, unreadCount, lastSettled>>
    /\ UNCHANGED <<phase, interval, marking, unhandled>>
    /\ UNCHANGED <<clock, view>>

\* The i-th awaiting getAdminNotifications() rejects (catch, lines 24-26,
\* then finally, line 28).
FetchFailed(i) ==
    /\ i \in DOMAIN fetching
    /\ fetching' = FetchingWithout(i, FALSE)
    /\ IF phase = "mounted"
       THEN /\ error' = FetchErrorMessage
            /\ loading' = FALSE
            /\ lastSettled' = Settled("fetchFail", 0, <<>>, fetching[i].overtaken)
       ELSE UNCHANGED <<error, loading, lastSettled>>
    /\ UNCHANGED <<phase, notifications, unreadCount, interval, marking, unhandled>>
    /\ UNCHANGED <<clock, view>>

FetchResolve == \E i \in DOMAIN fetching : \E fetched \in FetchResults : FetchSucceeded(i, fetched)

FetchReject == \E i \in DOMAIN fetching : FetchFailed(i)

\* ---------------------------------------------------------------- triggers
\* The mount effect (lines 88-95): fetchNotifications() and setInterval.
Mount ==
    /\ phase = "unmounted"
    /\ phase' = "mounted"
    /\ interval' = TRUE
    /\ FetchCall
    /\ UNCHANGED <<clock, view>>

\* The interval fires (line 92).
IntervalTick ==
    /\ phase = "mounted"
    /\ interval
    /\ FetchCall
    /\ UNCHANGED <<phase, interval>>
    /\ UNCHANGED <<clock, view>>

\* The Refresh button, rendered only for a non-empty list (lines 166-178).
RefreshClick ==
    /\ phase = "mounted"
    /\ Len(notifications) > 0
    /\ FetchCall
    /\ UNCHANGED <<phase, interval>>
    /\ UNCHANGED <<clock, view>>

\* A callback that does nothing while a fetch is loading.
IntervalCallbackSkipsWhileLoading ==
    IF loading
    THEN UNCHANGED <<notifications, loading, error, unreadCount, fetching,
                     marking, unhandled, lastSettled, timerFetches>>
    ELSE FetchCall /\ timerFetches' = timerFetches + 1

\* The callback of setInterval (line 92): fetchNotifications, unconditionally.
IntervalCallback ==
    /\ FetchCall
    /\ timerFetches' = timerFetches + 1

\* One refresh interval elapses after setInterval: a live interval runs its
\* callback once, a cleared one (line 94) runs nothing.
TimePasses ==
    /\ phase # "unmounted"
    /\ elapsed < MaxTicks
    /\ elapsed' = elapsed + 1
    /\ IF interval
       THEN IntervalCallback
       ELSE UNCHANGED <<notifications, loading, error, unreadCount, fetching,
                        marking, unhandled, lastSettled, timerFetches>>
    /\ UNCHANGED <<phase, interval, view>>

\* A cleanup that forgets clearInterval.
UnmountKeepsInterval ==
    /\ phase = "mounted"
    /\ phase' = "disposed"
    /\ UNCHANGED <<notifications, loading, error, unreadCount, interval, fetching,
                   marking, unhandled, lastSettled>>
    /\ UNCHANGED <<clock, view>>

\* The effect's cleanup (line 94): clearInterval. Awaiting calls stay.
Unmount ==
    /\ phase = "mounted"
    /\ phase' = "disposed"
    /\ interval' = FALSE
    /\ UNCHANGED <<notifications, loading, error, unreadCount, fetching, marking,
                   unhandled, lastSettled>>
    /\ UNCHANGED <<clock, view>>

\* ---------------------------------------------------------------- handleMarkAsRead
\* A click on a rendered entry (line 137) runs handleMarkAsRead up to its
\* await (lines 33-35).
MarkCall(notificationId) ==
    /\ phase = "mounted"
    /\ HasId(notifications, notificationId)
    /\ Len(fetching) + Pending(marking, MaxId) < MaxAwaiting
    /\ marking' = [marking EXCEPT ![notificationId] = @ + 1]
    /\ lastSettled' = IF lastSettled.kind \in {"ackOk", "ackFail"} /\ lastSettled.id = notificationId
                      THEN [lastSettled EXCEPT !.again = TRUE]
                      ELSE lastSettled
    /\ UNCHANGED <<phase, notifications, loading, error, unreadCount, interval,
                   fetching, unhandled>>
    /\ UNCHANGED <<clock, view>>

\* An awaiting markNotificationAsRead(notificationId) resolves (lines 36-45).
MarkSucceeded(notificationId) ==
    /\ marking[notificationId] > 0
    /\ marking' = [marking EXCEPT ![notificationId] = @ - 1]
    /\ IF phase = "mounted"
       THEN /\ notifications' = MarkRead(notifications, notificationId)
            /\ unreadCount' = Decrement(unreadCount)
            /\ lastSettled' = Settled("ackOk", notificationId, <<>>, FALSE)
       ELSE UNCHANGED <<notifications, unreadCount, lastSettled>>
    /\ UNCHANGED <<phase, loading, error, interval, fetching, unhandled>>
    /\ UNCHANGED <<clock, view>>

\* A catch block that reports the failure in the panel-wide error state.
MarkFailedSetsError(notificationId) ==
    /\ marking[notificationId] > 0
    /\ marking' = [marking EXCEPT ![notificationId] = @ - 1]
    /\ IF phase = "mounted"
       THEN /\ lastSettled' = Settled("ackFail", notificationId, <<>>, FALSE)
            /\ error' = "Failed to mark notification as read"
       ELSE UNCHANGED <<lastSettled, error>>
    /\ UNCHANGED <<phase, notifications, loading, unreadCount, interval,
                   fetching, unhandled>>
    /\ UNCHANGED <<clock, view>>

\* An awaiting markNotificationAsRead(notificationId) rejects (catch,
\* lines 46-48): console.error only.
MarkFailed(notificationId) ==
    /\ marking[notificationId] > 0
    /\ marking' = [marking EXCEPT ![notificationId] = @ - 1]
    /\ IF phase = "mounted"
       THEN lastSettled' = Settled("ackFail", notificationId, <<>>, FALSE)
       ELSE UNCHANGED lastSettled
    /\ UNCHANGED <<phase, notifications, loading, error, unreadCount, interval,
                   fetching, unhandled>>
    /\ UNCHANGED <<clock, view>>

MarkAsReadClick == \E notificationId \in Ids : MarkCall(notificationId)

MarkResolve == \E notificationId \in Ids : MarkSucceeded(notificationId)

MarkReject == \E notificationId \in Ids : MarkFailed(notificationId)

\* ---------------------------------------------------------------- specification
Next ==
    \/ Mount
    \/ IntervalTick
    \/ RefreshClick
    \/ FetchResolve
    \/ FetchReject
    \/ MarkAsReadClick
    \/ MarkResolve
    \/ MarkReject
    \/ Unmount

Spec == Init /\ [][Next]_vars

\* A fetch resolving with the empty list or with the list of all ids, all
\* unread.
FetchResolveSample ==
    \E i \in DOMAIN fetching :
        \E fetched \in {r \in FetchResults :
                            Len(r) \in {0, MaxId} /\ \A j \in DOMAIN r : ~r[j].read} :
            FetchSucceeded(i, fetched)

NextClock ==
    \/ Mount
    \/ TimePasses
    \/ RefreshClick
    \/ FetchResolveSample
    \/ FetchReject
    \/ MarkAsReadClick
    \/ MarkResolve
    \/ MarkReject
    \/ Unmount

\* The component with its clock: the interval's calls are counted against the
\* intervals elapsed.
SpecClock == Init /\ [][NextClock]_vars

NextFair ==
    \/ Mount
    \/ IntervalTick
    \/ RefreshClick
    \/ FetchResolveSample
    \/ FetchReject
    \/ MarkAsReadClick
    \/ MarkResolve
    \/ MarkReject
    \/ Unmount

\* The component when every awaiting getAdminNotifications() call settles in
\* the end.
SpecFair == Init /\ [][NextFair]_vars /\ WF_vars(FetchResolveSample \/ FetchReject)

\* getNotificationContent applied to each notification of Subjects.
InitContent ==
    /\ InitStore
    /\ subject \in Subjects
    /\ content = NotRendered

\* The render of one entry (line 135).
Render ==
    /\ content = NotRendered
    /\ content' = getNotificationContent(subject)
    /\ UNCHANGED <<phase, notifications, loading, error, unreadCount, interval,
                   fetching, marking, unhandled, lastSettled, clock, subject>>

NextContent == Render

SpecContent == InitContent /\ [][NextContent]_vars

\* ---------------------------------------------------------------- steps
\* The step is the settlement of a getAdminNotifications() call while mounted.
FetchSettles == phase = "mounted" /\ Len(fetching') < Len(fetching)

FetchOkStep == FetchSettles /\ lastSettled'.kind = "fetchOk"

FetchFailStep == FetchSettles /\ lastSettled'.kind = "fetchFail"

\* The step is the settlement of a markNotificationAsRead(id) call while mounted.
AckOkStep(id) ==
    /\ phase = "mounted"
    /\ marking'[id] < marking[id]
    /\ lastSettled'.kind = "ackOk"

AckFailStep(id) ==
    /\ phase = "mounted"
    /\ marking'[id] < marking[id]
    /\ lastSettled'.kind = "ackFail"

\* The entries of a list whose read flag is false, counted as a set of positions.
Unread(list) == Cardinality({i \in DOMAIN list : ~list[i].read})

\* ---------------------------------------------------------------- claims

\* C1: in every reachable state unreadCount equals the number of entries of
\* the current list whose read flag is false.
C1_UnreadCountMatchesList == unreadCount = Unread(notifications)

\* C2: a second acknowledge(id), called after the first one resolved and
\* resolving with no other settlement in between, changes neither the list
\* nor unreadCount.
C2_SecondAcknowledgeIsNoOp ==
    [][\A id \in Ids :
        (/\ AckOkStep(id)
         /\ lastSettled.kind = "ackOk"
         /\ lastSettled.id = id
         /\ lastSettled.again)
        => (notifications' = notifications /\ unreadCount' = unreadCount)]_vars

\* C3: when a fetch rejects, the list and unreadCount stay what they were,
\* the error message is set, loading ends and the status is error.
C3_FetchRejectKeepsLastKnownGood ==
    [][FetchFailStep =>
        /\ notifications' = notifications
        /\ unreadCount' = unreadCount
        /\ error' = FetchErrorMessage
        /\ error' # ""
        /\ ~loading'
        /\ Status' = "error"]_vars

\* C3 witness: a fetch has rejected over a non-empty list with unread entries;
\* the list is still there and the status is error.
C3_Witness ==
    /\ phase = "mounted"
    /\ lastSettled.kind = "fetchFail"
    /\ Len(notifications) = MaxId
    /\ unreadCount > 0
    /\ Status = "error"

\* C4: every fetch() call clears any previous error when it starts loading,
\* so the error of a failed fetch does not outlive the start of a retry.
C4_FetchCallClearsError ==
    [][(phase # "disposed" /\ Len(fetching') > Len(fetching)) => error' = ""]_vars

\* C5: a successful acknowledge(id) of an entry in the list keeps the length,
\* the ids and their order and every other field, sets read on the entries
\* with that id only, makes unreadCount max(0, unreadCount - 1) and leaves
\* loading and error alone.
C5_AcknowledgeFrame ==
    [][\A id \in Ids :
        (AckOkStep(id) /\ HasId(notifications, id)) =>
            /\ Len(notifications') = Len(notifications)
            /\ \A i \in DOMAIN notifications :
                  /\ DOMAIN notifications'[i] = DOMAIN notifications[i]
                  /\ notifications'[i].id = notifications[i].id
                  /\ notifications'[i].type = notifications[i].type
                  /\ notifications'[i].read =
                        (notifications[i].read \/ notifications[i].id = id)
            /\ unreadCount' = (IF unreadCount = 0 THEN 0 ELSE unreadCount - 1)
            /\ loading' = loading
            /\ error' = error]_vars

\* C5 witness: an acknowledge has resolved for an entry of a two-entry list;
\* that entry is read, another entry is still unread.
C5_Witness ==
    /\ phase = "mounted"
    /\ lastSettled.kind = "ackOk"
    /\ Len(notifications) > 1
    /\ \E i, j \in DOMAIN notifications :
          /\ notifications[i].id = lastSettled.id
          /\ notifications[i].read
          /\ ~notifications[j].read

\* C6: when markNotificationAsRead rejects, the list, unreadCount, loading
\* and error are unchanged and no rejection escapes the handler.
C6_AcknowledgeRejectLeavesState ==
    [][\A id \in Ids :
        AckFailStep(id) =>
            /\ notifications' = notifications
            /\ unreadCount' = unreadCount
            /\ loading' = loading
            /\ error' = error
            /\ unhandled' = 0]_vars

\* C6 witness: an acknowledge has rejected; its entry is in the list, still
\* unread, and no error is shown.
C6_Witness ==
    /\ phase = "mounted"
    /\ lastSettled.kind = "ackFail"
    /\ \E i \in DOMAIN notifications :
          notifications[i].id = lastSettled.id /\ ~notifications[i].read
    /\ unreadCount > 0
    /\ error = ""

\* C7: an acknowledge(id) that resolves when the list holds no entry with
\* that id (a fetch replaced the list meanwhile) changes neither the list nor
\* unreadCount.
C7_AcknowledgeOfMissingIsNoOp ==
    [][\A id \in Ids :
        (AckOkStep(id) /\ ~HasId(notifications, id)) =>
            (notifications' = notifications /\ unreadCount' = unreadCount)]_vars

\* C8: right after a fetch resolves with a list R, unreadCount is the number
\* of entries of R whose read flag is false, whatever the state before.
C8_UnreadCountAfterFetch ==
    [][FetchOkStep => unreadCount' = Unread(lastSettled'.result)]_vars

\* C8 witness: a fetch has resolved with a list holding a read and an unread
\* entry, and unreadCount is 1.
C8_Witness ==
    /\ phase = "mounted"
    /\ lastSettled.kind = "fetchOk"
    /\ \E i, j \in DOMAIN lastSettled.result :
          lastSettled.result[i].read /\ ~lastSettled.result[j].read
    /\ notifications = lastSettled.result
    /\ unreadCount = Unread(lastSettled.result)

\* C9: a fetch called while another is awaiting is one more awaiting call and
\* cancels none; whichever call resolves, also one already overtaken by a
\* later call's response, the list and unreadCount become its response's.
C9_LastResponseWins ==
    [][/\ Len(fetching') > Len(fetching) =>
            fetching' = Append(fetching, [overtaken |-> FALSE])
       /\ (FetchOkStep /\ (lastSettled'.overtaken \/ Len(fetching) > 1)) =>
            /\ notifications' = lastSettled'.result
            /\ unreadCount' = Unread(lastSettled'.result)]_vars

\* C9 witness: a call overtaken by a later call's response has resolved last
\* and its non-empty response is the list.
C9_Witness ==
    /\ phase = "mounted"
    /\ lastSettled.kind = "fetchOk"
    /\ lastSettled.overtaken
    /\ lastSettled.result # <<>>
    /\ notifications = lastSettled.result

\* C10: after a fetch resolves, the list is the response exactly: same
\* length, same entries, and each read flag is the response's.
C10_FetchReplacesWholesale ==
    [][FetchOkStep =>
        /\ notifications' = lastSettled'.result
        /\ \A id \in Ids :
              ~HasId(lastSettled'.result, id) => ~HasId(notifications', id)
        /\ \A i \in DOMAIN lastSettled'.result :
              notifications'[i].read = lastSettled'.result[i].read]_vars

\* C10 witness: a fetch has resolved with a list that drops an id and holds
\* an unread entry; the list is that response.
C10_Witness ==
    /\ phase = "mounted"
    /\ lastSettled.kind = "fetchOk"
    /\ Len(lastSettled.result) < MaxId
    /\ \E i \in DOMAIN lastSettled.result : ~lastSettled.result[i].read
    /\ notifications = lastSettled.result


\* C11: while the interval is live, the calls it has made are as many as
\* the intervals elapsed since it was set, one call per interval.
C11_OneFetchPerInterval == interval => timerFetches = elapsed

\* C11 witness: three intervals have elapsed, the interval has made three
\* calls, and the last one was made while an earlier fetch was awaiting.
C11_Witness ==
    /\ interval
    /\ elapsed = 3
    /\ timerFetches = 3
    /\ Len(fetching) > 1

\* C12: once the component is torn down, no step makes the interval's call
\* count or the awaiting fetches grow.
C12_NoTimerFetchAfterTeardown ==
    [][phase = "disposed" =>
        (timerFetches' = timerFetches /\ Len(fetching') <= Len(fetching))]_vars

\* C12 witness: after teardown with a fetch and an acknowledge awaiting, time
\* has passed without a call by the interval.
C12_Witness ==
    /\ phase = "disposed"
    /\ elapsed > timerFetches
    /\ Len(fetching) > 0
    /\ Pending(marking, MaxId) > 0

\* C13: the mount starts from the empty, idle state and makes the status
\* loading; the status stays loading until something settles; when the
\* initial fetch is the first to settle and resolves, the status is ready, the
\* list is its response and unreadCount is the response's unread entries.
C13_OpenLoadsThenReady ==
    [][/\ (phase = "unmounted" /\ phase' = "mounted") =>
            /\ notifications = <<>> /\ unreadCount = 0 /\ ~loading /\ error = ""
            /\ Status' = "loading"
            /\ Len(fetching') = 1
       /\ (phase' = "mounted" /\ lastSettled'.kind = "none") => Status' = "loading"
       /\ (FetchOkStep /\ lastSettled.kind = "none" /\ fetching' = Tail(fetching)) =>
            /\ Status' = "ready"
            /\ notifications' = lastSettled'.result
            /\ unreadCount' = Unread(lastSettled'.result)]_vars

\* C13 witness: a fetch has resolved with a single unread entry; the status is
\* ready and unreadCount is 1.
C13_Witness ==
    /\ phase = "mounted"
    /\ lastSettled.kind = "fetchOk"
    /\ Len(lastSettled.result) = 1
    /\ notifications = lastSettled.result
    /\ unreadCount = 1
    /\ Status = "ready"
    /\ fetching = <<>>

\* The message holds the text s: one of its pieces is s, or s is empty.
Contains(message, s) == s = "" \/ \E i \in DOMAIN message : message[i] = s

\* C14: for every type other than the string new_google_user (another
\* string, missing, null) the content is the generic fallback with empty link
\* and linkText; for new_google_user link and linkText are non-empty.
C14_UnknownTypeFallsBack ==
    content # NotRendered =>
        IF subject.type = Str("new_google_user")
        THEN content.link # "" /\ content.linkText # ""
        ELSE /\ content.title = "Notification"
             /\ content.message = <<"You have a new notification.">>
             /\ content.link = ""
             /\ content.linkText = ""

\* C14 witness: a notification without a type has been rendered with the
\* fallback content.
C14_Witness ==
    /\ subject.type = Undefined
    /\ content # NotRendered
    /\ content.link = ""

\* C15: for new_google_user the message contains userName when userName is
\* a string, and contains userEmail when userName is missing or null and
\* userEmail is a string.
C15_MessageNamesTheUser ==
    (content # NotRendered /\ subject.type = Str("new_google_user")) =>
        /\ subject.userName.t = "string" => Contains(content.message, subject.userName.s)
        /\ (subject.userName.t # "string" /\ subject.userEmail.t = "string") =>
              Contains(content.message, subject.userEmail.s)

\* C15 witness: a sign-up with both a name and an address has been rendered
\* and the message holds the name.
C15_Witness ==
    /\ subject.type = Str("new_google_user")
    /\ subject.userName = Str("Alice")
    /\ subject.userEmail = Str("a@x.com")
    /\ content # NotRendered
    /\ Contains(content.message, "Alice")

C17_UnreadCountNotNegative == unreadCount >= 0

\* C17 witness: an acknowledge has resolved over an empty list, that is with
\* unreadCount already 0, and unreadCount is 0.
C17_Witness ==
    /\ phase = "mounted"
    /\ lastSettled.kind = "ackOk"
    /\ notifications = <<>>
    /\ unreadCount = 0

\* C18: loading is true in every state of the mounted component in which a
\* getAdminNotifications() call is awaiting.
C18_LoadingWhileFetching ==
    (phase = "mounted" /\ Len(fetching) > 0) => loading

\* C19: every step other than a fetch resolving keeps the list's length and
\* ids and never turns a read entry unread.
C19_ReadOnlyGrowsBetweenFetches ==
    [][~FetchOkStep =>
        /\ Len(notifications') = Len(notifications)
        /\ \A i \in DOMAIN notifications :
              /\ notifications'[i].id = notifications[i].id
              /\ notifications[i].read => notifications'[i].read]_vars

\* C19 witness: acknowledgements have resolved on a list of all ids, the last
\* one called again after an earlier one for the same id, and every entry is
\* read.
C19_Witness ==
    /\ phase = "mounted"
    /\ lastSettled.kind = "ackOk"
    /\ Len(notifications) = MaxId
    /\ \A i \in DOMAIN notifications : notifications[i].read
    /\ unreadCount = 0

\* C20: if from some point on no fetch is called, then from some point on
\* the mounted component is not loading.
C20_LoadingEnds ==
    <>[][Len(fetching') <= Len(fetching)]_vars => <>[](phase = "mounted" => ~loading)

\* C20 witness: the last fetch has rejected, nothing is awaiting and loading
\* is false.
C20_Witness ==
    /\ phase = "mounted"
    /\ lastSettled.kind = "fetchFail"
    /\ fetching = <<>>
    /\ ~loading
    /\ error # ""

====
